---- MODULE Spec2Model ----
(***************************************************************************)
(* A model of cura/Machines/MaterialManager.py: the four lookup maps, the  *)
(* favorites set mirrored to the preference "cura/favorite_materials", the *)
(* single-shot debounce timer driven by the container registry's signals,  *)
(* the fallback queries and the operations delegated to the material       *)
(* management model.                                                       *)
(*                                                                         *)
(* Python values are represented as follows.                               *)
(*   str that is split or joined : a sequence of one-character strings     *)
(*   other str (ids, types)      : a TLA+ string                           *)
(*   Optional[T]                 : None is <<>>, a value x is <<x>>         *)
(*   dict                        : a function with a finite domain         *)
(*   list                        : a sequence                              *)
(*   float                       : an integer number of hundredths         *)
(***************************************************************************)
EXTENDS Integers, Sequences, FiniteSets, TLC

VARIABLES
    _fallback_materials_map,    \* material type -> generic material metadata
    _material_group_map,        \* root material id -> MaterialGroup
    _diameter_material_map,     \* material id with diameter -> root material id
    _guid_material_groups_map,  \* GUID -> list of MaterialGroup
    _favorites,                 \* set of root material ids
    _update_timer,              \* the QTimer: [active, remaining]
    preferences,                \* the value of "cura/favorite_materials"
    registry,                   \* the containers the ContainerRegistry holds
    container_tree,             \* ContainerTree: machines -> variants -> materials
    burst,                      \* material notifications since the last timeout
    bursts,                     \* bursts of notifications started so far
    timeouts,                   \* timeouts of the timer so far
    elapsed,                    \* ms since the last material notification
    last                        \* the last operation and what it did

vars == <<_fallback_materials_map, _material_group_map, _diameter_material_map,
          _guid_material_groups_map, _favorites, _update_timer, preferences,
          registry, container_tree, burst, bursts, timeouts, elapsed, last>>

maps == <<_fallback_materials_map, _material_group_map, _diameter_material_map,
          _guid_material_groups_map>>

-----------------------------------------------------------------------------
(* Bounds of the model.                                                    *)

\* The most material notifications one burst holds.
MaxBurst == 3

\* The most bursts of notifications a behaviour holds.
MaxBursts == 2

\* The longest list of groups the GUID map holds for one GUID.
MaxGroups == 3

-----------------------------------------------------------------------------
(* Python values.                                                          *)

None == <<>>

Some(x) == <<x>>

EmptyDict == [k \in {} |-> None]

Range(s) == {s[i] : i \in 1..Len(s)}

\* dict.get(key): the value, or None.
DictGet(d, k) == IF k \in DOMAIN d THEN Some(d[k]) ELSE None

\* dict.get(key, default)
DictGetDefault(d, k, default) == IF k \in DOMAIN d THEN d[k] ELSE default

\* str.split(";"): the pieces between the separators, [""] for "".
RECURSIVE Split(_)
Split(s) ==
    IF \A i \in 1..Len(s) : s[i] # ";"
    THEN <<s>>
    ELSE LET i == CHOOSE j \in 1..Len(s) :
                      s[j] = ";" /\ \A k \in 1..(j - 1) : s[k] # ";"
         IN <<SubSeq(s, 1, i - 1)>> \o Split(SubSeq(s, i + 1, Len(s)))

\* ";".join(list)
RECURSIVE Join(_)
Join(l) ==
    IF Len(l) = 0 THEN <<>>
    ELSE IF Len(l) = 1 THEN l[1]
    ELSE l[1] \o <<";">> \o Join(Tail(l))

\* list(a_set): the elements of the set, once each, in the order the set
\* happens to iterate them.
ListsOf(S) ==
    {l \in [1..Cardinality(S) -> S] : \A i, j \in DOMAIN l : l[i] = l[j] => i = j}

-----------------------------------------------------------------------------
(* The values the model draws its inputs from.                             *)

\* Root material ids offered to addFavorite and removeFavorite.
FavoriteIds == {<<>>, <<"a">>, <<"a", "b">>}

\* Values the preference holds when the manager is constructed.
InitialPreferences == {<<>>, <<"a">>, <<"a", ";", "a", "b">>}

\* Containers the registry adds, removes and changes.
Containers ==
    { [id |-> "generic_pla", type |-> "material", GUID |-> "G1", material |-> "PLA"],
      [id |-> "um3_fast", type |-> "quality", GUID |-> "G2", material |-> "PLA"] }

\* Milliseconds by which time advances in one step.
Delays == {100, 200}

MaterialNodes == {"generic_pla"}

MaterialNames == {"My PLA"}

-----------------------------------------------------------------------------
(* Container and timer helpers.                                            *)

getMetaDataEntry(container, key) == container[key]

getId(container) == container.id

Interval == 300

SingleShotRepeats == FALSE

SingleShot == TRUE

\* QTimer.start(): starts the timer, or stops and restarts it when it runs.
TimerStart(timer) == [active |-> TRUE, remaining |-> Interval]

\* What the timer is after its timeout.
TimerAfterTimeout(timer) ==
    IF SingleShot THEN [active |-> FALSE, remaining |-> 0]
    ELSE [active |-> TRUE, remaining |-> Interval]

Min(a, b) == IF a < b THEN a ELSE b

Max(a, b) == IF a < b THEN b ELSE a

-----------------------------------------------------------------------------
(* The record of the last operation.                                       *)
(*   op, arg     the operation and its argument                            *)
(*   raised      whether it ended in an exception                          *)
(*   result      what it returned                                          *)
(*   emitted     how many times it emitted materialsUpdated                *)
(*   saved       how many times it called saveSettings                     *)
(*   warned      whether it logged a warning                               *)
(*   delegate    the call it made on the material management model        *)

NoCall ==
    [op |-> "__init__", arg |-> None, raised |-> FALSE, result |-> None,
     emitted |-> 0, saved |-> 0, warned |-> FALSE, delegate |-> None]

Call(op, arg) == [NoCall EXCEPT !.op = op, !.arg = arg]

-----------------------------------------------------------------------------
(* Construction.                                                           *)

Constructed(pref) ==
    /\ _fallback_materials_map = EmptyDict
    /\ _material_group_map = EmptyDict
    /\ _diameter_material_map = EmptyDict
    /\ _guid_material_groups_map = EmptyDict
    /\ preferences = pref
    /\ _favorites = Range(Split(pref))
    /\ _update_timer = [active |-> FALSE, remaining |-> 0]
    /\ burst = 0
    /\ bursts = 0
    /\ timeouts = 0
    /\ elapsed = 0
    /\ last = [NoCall EXCEPT !.emitted = 1]

Init ==
    /\ \E pref \in InitialPreferences : Constructed(pref)
    /\ registry = {}
    /\ container_tree = EmptyDict

-----------------------------------------------------------------------------
(* The registry's signals and the debounce timer.                          *)

\* _onContainerChanged: a material container (re)starts the timer, any other
\* container is ignored.
OnContainerChanged(signal, container) ==
    IF getMetaDataEntry(container, "type") # "material"
    THEN /\ last' = Call(signal, getId(container))
         /\ UNCHANGED <<_update_timer, burst, bursts, elapsed>>
    ELSE /\ burst < MaxBurst
         /\ burst = 0 => bursts < MaxBursts
         /\ _update_timer' = TimerStart(_update_timer)
         /\ burst' = burst + 1
         /\ bursts' = IF burst = 0 THEN bursts + 1 ELSE bursts
         /\ elapsed' = 0
         /\ last' = Call(signal, getId(container))

ContainerAdded ==
    \E container \in Containers \ registry :
        /\ registry' = registry \cup {container}
        /\ OnContainerChanged("containerAdded", container)
        /\ UNCHANGED <<maps, _favorites, preferences, container_tree, timeouts>>

ContainerRemoved ==
    \E container \in registry :
        /\ registry' = registry \ {container}
        /\ OnContainerChanged("containerRemoved", container)
        /\ UNCHANGED <<maps, _favorites, preferences, container_tree, timeouts>>

ContainerMetaDataChanged ==
    \E container \in registry :
        /\ OnContainerChanged("containerMetaDataChanged", container)
        /\ UNCHANGED <<maps, _favorites, preferences, registry, container_tree,
                       timeouts>>

\* Time passes while the timer runs.
Tick ==
    \E d \in Delays :
        /\ _update_timer.active
        /\ _update_timer.remaining > 0
        /\ _update_timer' =
               [_update_timer EXCEPT !.remaining = Max(0, _update_timer.remaining - d)]
        /\ elapsed' = Min(Interval, elapsed + d)
        /\ UNCHANGED <<maps, _favorites, preferences, registry, container_tree,
                       burst, bursts, timeouts, last>>

\* The timer's timeout, connected to the materialsUpdated signal.
Timeout ==
    /\ _update_timer.active
    /\ _update_timer.remaining = 0
    /\ timeouts <= MaxBursts
    /\ _update_timer' = TimerAfterTimeout(_update_timer)
    /\ timeouts' = timeouts + 1
    /\ burst' = 0
    /\ last' = [Call("timeout", burst) EXCEPT !.emitted = 1]
    /\ UNCHANGED <<maps, _favorites, preferences, registry, container_tree,
                   bursts, elapsed>>

-----------------------------------------------------------------------------
(* Favorites.                                                              *)

FavoritesAfterAddKeepsSet(favorites, root_material_id) == favorites

FavoritesAfterAdd(favorites, root_material_id) == favorites \cup {root_material_id}

RemoveFavoriteMissIgnored(favorites, root_material_id) == FALSE

\* set.remove raises KeyError for an element the set does not hold.
RemoveFavoriteMisses(favorites, root_material_id) == root_material_id \notin favorites

addFavorite ==
    \E root_material_id \in FavoriteIds :
        /\ _favorites' = FavoritesAfterAdd(_favorites, root_material_id)
        /\ \E l \in ListsOf(_favorites') : preferences' = Join(l)
        /\ last' = [Call("addFavorite", root_material_id)
                        EXCEPT !.emitted = 1, !.saved = 1]
        /\ UNCHANGED <<maps, _update_timer, registry, container_tree, burst,
                       bursts, timeouts, elapsed>>

removeFavorite ==
    \E root_material_id \in FavoriteIds :
        IF RemoveFavoriteMisses(_favorites, root_material_id)
        THEN /\ last' = [Call("removeFavorite", root_material_id)
                             EXCEPT !.warned = TRUE]
             /\ UNCHANGED <<maps, _favorites, preferences, _update_timer, registry,
                            container_tree, burst, bursts, timeouts, elapsed>>
        ELSE /\ _favorites' = _favorites \ {root_material_id}
             /\ \E l \in ListsOf(_favorites') : preferences' = Join(l)
             /\ last' = [Call("removeFavorite", root_material_id)
                             EXCEPT !.emitted = 1, !.saved = 1]
             /\ UNCHANGED <<maps, _update_timer, registry, container_tree, burst,
                            bursts, timeouts, elapsed>>

getFavorites == _favorites

-----------------------------------------------------------------------------
(* The operations delegated to the material management model.              *)

setMaterialName ==
    \E material_node \in MaterialNodes, name \in MaterialNames :
        /\ last' = [Call("setMaterialName", <<material_node, name>>)
                        EXCEPT !.delegate = Some([method |-> "setMaterialName",
                                                  args |-> <<material_node, name>>])]
        /\ UNCHANGED <<maps, _favorites, preferences, _update_timer, registry,
                       container_tree, burst, bursts, timeouts, elapsed>>

\* The method of the material management model that removeMaterial calls.
removeMaterialDelegate == "setMaterialName"

removeMaterial ==
    \E material_node \in MaterialNodes :
        /\ last' = [Call("removeMaterial", <<material_node>>)
                        EXCEPT !.delegate = Some([method |-> removeMaterialDelegate,
                                                  args |-> <<material_node>>])]
        /\ UNCHANGED <<maps, _favorites, preferences, _update_timer, registry,
                       container_tree, burst, bursts, timeouts, elapsed>>

-----------------------------------------------------------------------------
(* The fallback queries.                                                   *)

\* Names of the material groups the GUID map lists.
GroupNames == {"generic_pla", "ultimaker_pla", "my_pla", "my_pla_2"}

MaterialGroups == [name : GroupNames, is_read_only : BOOLEAN]

\* Ids of the materials the queries are asked about.
MaterialIds == {"generic_pla", "my_pla", "other_pla"}

\* The materials the queries are asked about; only G1 is ever a key of the
\* GUID map and only PLA a key of the fallback map.
Materials ==
    [id : MaterialIds, type : {"material"}, GUID : {"G1", "G2"},
     material : {"PLA", "ABS"}]

MaterialTypes == {"PLA", "ABS"}

getRootMaterialIDWithoutDiameterSameId(root_material_id) == root_material_id

getRootMaterialIDWithoutDiameter(root_material_id) ==
    DictGetDefault(_diameter_material_map, root_material_id, "")

getMaterialGroupListByGUID(guid) == DictGet(_guid_material_groups_map, guid)

\* Optional[str]; the second field tells whether a warning was logged.
getFallbackMaterialIdByMaterialType(material_type) ==
    IF material_type \notin DOMAIN _fallback_materials_map
    THEN [result |-> None, warned |-> TRUE]
    ELSE LET fallback_material == _fallback_materials_map[material_type]
         IN IF DOMAIN fallback_material # {}
            THEN [result |-> Some(getRootMaterialIDWithoutDiameter(fallback_material["id"])),
                  warned |-> FALSE]
            ELSE [result |-> None, warned |-> FALSE]

IsOtherGroupAlways(material_group, material) == TRUE

\* material_group.name != material.getId()
IsOtherGroup(material_group, material) == material_group.name # getId(material)

InsertFrontAppends(results, name) == Append(results, name)

\* results.insert(0, name)
InsertFront(results, name) == <<name>> \o results

\* The loop over the groups of the material's GUID, from the i-th group on.
RECURSIVE FallbackLoop(_, _, _, _)
FallbackLoop(material_groups, i, material, results) ==
    IF i > Len(material_groups) THEN results
    ELSE LET material_group == material_groups[i]
             next_results ==
                 IF IsOtherGroup(material_group, material)
                 THEN IF material_group.is_read_only
                      THEN InsertFront(results, material_group.name)
                      ELSE Append(results, material_group.name)
                 ELSE results
         IN FallbackLoop(material_groups, i + 1, material, next_results)

\* [raised, result, warned]: iterating None raises TypeError.
getFallBackMaterialIdsByMaterial(material) ==
    LET material_groups == getMaterialGroupListByGUID(getMetaDataEntry(material, "GUID"))
        fallback == getFallbackMaterialIdByMaterialType(getMetaDataEntry(material, "material"))
    IN IF material_groups = None
       THEN [raised |-> TRUE, result |-> <<>>, warned |-> FALSE]
       ELSE LET results == FallbackLoop(material_groups[1], 1, material, <<>>)
            IN [raised |-> FALSE,
                result |-> IF fallback.result # None
                           THEN Append(results, fallback.result[1])
                           ELSE results,
                warned |-> fallback.warned]

GetFallBackMaterialIdsByMaterial ==
    \E material \in Materials :
        LET r == getFallBackMaterialIdsByMaterial(material)
        IN /\ last' = [Call("getFallBackMaterialIdsByMaterial", material)
                           EXCEPT !.raised = r.raised, !.result = r.result,
                                  !.warned = r.warned]
           /\ UNCHANGED <<maps, _favorites, preferences, _update_timer, registry,
                          container_tree, burst, bursts, timeouts, elapsed>>

GetFallbackMaterialIdByMaterialType ==
    \E material_type \in MaterialTypes :
        LET r == getFallbackMaterialIdByMaterialType(material_type)
        IN /\ last' = [Call("getFallbackMaterialIdByMaterialType", material_type)
                           EXCEPT !.result = r.result, !.warned = r.warned]
           /\ UNCHANGED <<maps, _favorites, preferences, _update_timer, registry,
                          container_tree, burst, bursts, timeouts, elapsed>>

-----------------------------------------------------------------------------
(* The fallback queries over maps that hold materials.  The maps are       *)
(* inputs of the queries: the initial state draws them.                    *)

\* Lists of distinct groups, as the GUID map holds them.
GroupLists ==
    UNION { {l \in [1..n -> MaterialGroups] :
                \A i, j \in 1..n : l[i].name = l[j].name => i = j}
            : n \in 0..MaxGroups }

GuidMaps == {EmptyDict} \cup {[guid \in {"G1"} |-> l] : l \in GroupLists}

\* The generic material's metadata, or no metadata when the type has no
\* generic material.
FallbackMetadata ==
    {EmptyDict} \cup {[key \in {"id"} |-> id] : id \in {"generic_pla", "generic_pla_175"}}

FallbackMaps == {EmptyDict} \cup {[type \in {"PLA"} |-> m] : m \in FallbackMetadata}

DiameterMaps ==
    UNION { [ids -> {"generic_pla"}] : ids \in SUBSET {"generic_pla", "generic_pla_175"} }

GroupMapOf(guid_map) ==
    LET groups == UNION {Range(guid_map[guid]) : guid \in DOMAIN guid_map}
    IN [name \in {g.name : g \in groups} |->
            CHOOSE g \in groups : g.name = name]

InitQuery ==
    /\ _fallback_materials_map \in FallbackMaps
    /\ _diameter_material_map \in DiameterMaps
    /\ _guid_material_groups_map \in GuidMaps
    /\ _material_group_map = GroupMapOf(_guid_material_groups_map)
    /\ preferences = <<>>
    /\ _favorites = Range(Split(preferences))
    /\ _update_timer = [active |-> FALSE, remaining |-> 0]
    /\ burst = 0
    /\ bursts = 0
    /\ timeouts = 0
    /\ elapsed = 0
    /\ last = [NoCall EXCEPT !.emitted = 1]
    /\ registry = {}
    /\ container_tree = EmptyDict

NextQuery ==
    \/ GetFallBackMaterialIdsByMaterial
    \/ GetFallbackMaterialIdByMaterialType

SpecQuery == InitQuery /\ [][NextQuery]_vars

-----------------------------------------------------------------------------
(* The materials available to an extruder.                                 *)

DigitValue(c) ==
    CASE c = "0" -> 0 [] c = "1" -> 1 [] c = "2" -> 2 [] c = "3" -> 3
      [] c = "4" -> 4 [] c = "5" -> 5 [] c = "6" -> 6 [] c = "7" -> 7
      [] c = "8" -> 8 [] c = "9" -> 9

RECURSIVE ParseDigits(_)
ParseDigits(s) ==
    IF Len(s) = 0 THEN 0
    ELSE 10 * ParseDigits(SubSeq(s, 1, Len(s) - 1)) + DigitValue(s[Len(s)])

\* float(s) in hundredths, for a decimal numeral of at most two decimals.
Float(s) ==
    IF \A i \in 1..Len(s) : s[i] # "."
    THEN 100 * ParseDigits(s)
    ELSE LET dot == CHOOSE i \in 1..Len(s) : s[i] = "."
             decimals == SubSeq(s, dot + 1, Len(s))
             padded == SubSeq(decimals \o <<"0", "0">>, 1, 2)
         IN 100 * ParseDigits(SubSeq(s, 1, dot - 1)) + ParseDigits(padded)

\* Values of the metadata entry "approximate_diameter".
DiameterStrings == {<<"3">>, <<"3", ".", "0">>, <<"2">>, <<"1", ".", "7", "5">>}

\* Material nodes: one whose container is None, and one per diameter.
TreeNodes ==
    {[container |-> None]} \cup
    {[container |-> Some([approximate_diameter |-> d])] : d \in DiameterStrings}

RootMaterialIds == {"generic_pla", "generic_abs"}

\* The materials of one variant: root material id -> MaterialNode.
MaterialDicts == UNION { [ids -> TreeNodes] : ids \in SUBSET RootMaterialIds }

\* The tree of one machine whose variants are "no nozzle" and "AA 0.4".
ContainerTrees ==
    { [machine \in {"ultimaker3"} |->
          [nozzle \in {None, Some("AA 0.4")} |->
              IF nozzle = None THEN without ELSE with]]
      : without \in MaterialDicts, with \in MaterialDicts }

Variants ==
    { [id |-> "empty_variant", name |-> "empty"],
      [id |-> "ultimaker3_aa04", name |-> "AA 0.4"],
      [id |-> "ultimaker3_bb04", name |-> "BB 0.4"] }

\* Extruder stacks: the variant and getApproximateMaterialDiameter().
ExtruderStacks == [variant : Variants, approximate_diameter : {175, 200, 300}]

\* Global stacks: the id of the machine's definition.
GlobalStacks == [definition : {"ultimaker3", "ultimaker2"}]

\* [raised, result]: indexing a missing machine or variant raises KeyError.
getAvailableMaterials(definition_id, nozzle_name) ==
    IF definition_id \in DOMAIN container_tree
       /\ nozzle_name \in DOMAIN container_tree[definition_id]
    THEN [raised |-> FALSE, result |-> container_tree[definition_id][nozzle_name]]
    ELSE [raised |-> TRUE, result |-> EmptyDict]

NozzleNameOfVariant(extruder_stack) == Some(extruder_stack.variant.name)

\* None for the empty variant, the variant's name otherwise.
NozzleName(extruder_stack) ==
    IF extruder_stack.variant.id # "empty_variant"
    THEN Some(extruder_stack.variant.name)
    ELSE None

\* material.container and float(approximate_diameter) == compatible diameter
IsCompatible(material, compatible_material_diameter) ==
    /\ material.container # None
    /\ Float(getMetaDataEntry(material.container[1], "approximate_diameter"))
           = compatible_material_diameter

getAvailableMaterialsForMachineExtruder(machine, extruder_stack) ==
    LET nozzle_name == NozzleName(extruder_stack)
        materials == getAvailableMaterials(machine.definition, nozzle_name)
        compatible_material_diameter == extruder_stack.approximate_diameter
    IN IF materials.raised
       THEN [raised |-> TRUE, result |-> EmptyDict]
       ELSE LET keys == {key \in DOMAIN materials.result :
                            IsCompatible(materials.result[key],
                                         compatible_material_diameter)}
            IN [raised |-> FALSE,
                result |-> [key \in keys |-> materials.result[key]]]

GetAvailableMaterialsForMachineExtruder ==
    \E machine \in GlobalStacks, extruder_stack \in ExtruderStacks :
        LET r == getAvailableMaterialsForMachineExtruder(machine, extruder_stack)
        IN /\ last' = [Call("getAvailableMaterialsForMachineExtruder",
                            <<machine, extruder_stack>>)
                           EXCEPT !.raised = r.raised, !.result = r.result]
           /\ UNCHANGED <<maps, _favorites, preferences, _update_timer, registry,
                          container_tree, burst, bursts, timeouts, elapsed>>

InitTree ==
    /\ \E pref \in {<<>>} : Constructed(pref)
    /\ registry = {}
    /\ container_tree \in ContainerTrees

NextTree == GetAvailableMaterialsForMachineExtruder

SpecTree == InitTree /\ [][NextTree]_vars

-----------------------------------------------------------------------------
Next ==
    \/ ContainerAdded
    \/ ContainerRemoved
    \/ ContainerMetaDataChanged
    \/ Tick
    \/ Timeout
    \/ addFavorite
    \/ removeFavorite
    \/ setMaterialName
    \/ removeMaterial
    \/ GetFallBackMaterialIdsByMaterial
    \/ GetFallbackMaterialIdByMaterialType

Spec == Init /\ [][Next]_vars

-----------------------------------------------------------------------------
(* A restart: the manager is constructed anew from the preference the old  *)
(* one left; the registry and the container tree are as they were.         *)

Restart ==
    /\ _fallback_materials_map' = EmptyDict
    /\ _material_group_map' = EmptyDict
    /\ _diameter_material_map' = EmptyDict
    /\ _guid_material_groups_map' = EmptyDict
    /\ _favorites' = Range(Split(preferences))
    /\ _update_timer' = [active |-> FALSE, remaining |-> 0]
    /\ burst' = 0
    /\ bursts' = 0
    /\ timeouts' = 0
    /\ elapsed' = 0
    /\ last' = [NoCall EXCEPT !.emitted = 1]
    /\ UNCHANGED <<preferences, registry, container_tree>>

NextRestart ==
    \/ Next
    \/ Restart

SpecRestart == Init /\ [][NextRestart]_vars

-----------------------------------------------------------------------------
(* Helpers of the properties.                                              *)

\* The preference strings that join the ids of a set, in any order.
JoinsOf(S) == {Join(l) : l \in ListsOf(S)}

\* The material containers the registry holds.
RegistryMaterials == {c \in registry : getMetaDataEntry(c, "type") = "material"}

\* The position of the first occurrence of x in the list s.
PosOf(s, x) == CHOOSE i \in 1..Len(s) : s[i] = x /\ \A j \in 1..(i - 1) : s[j] # x

\* The names of the groups of the list l that are not named own and whose
\* is_read_only flag is flag, in the order of l.
RECURSIVE NamesOf(_, _, _)
NamesOf(l, own, flag) ==
    IF Len(l) = 0 THEN <<>>
    ELSE LET rest == NamesOf(Tail(l), own, flag)
         IN IF l[1].name # own /\ l[1].is_read_only = flag
            THEN <<l[1].name>> \o rest
            ELSE rest

Reverse(s) == [i \in 1..Len(s) |-> s[Len(s) + 1 - i]]

\* The generic fallback id of a material, as a list of at most one id.
FallbackOf(material) ==
    getFallbackMaterialIdByMaterialType(getMetaDataEntry(material, "material")).result

\* The groups the GUID map lists for the material of a call that found them.
GroupsOf(material) ==
    _guid_material_groups_map[getMetaDataEntry(material, "GUID")]

ReturnedFallbackIds ==
    last.op = "getFallBackMaterialIdsByMaterial" /\ ~last.raised

-----------------------------------------------------------------------------
(* C1.  Debounce coalescing: a burst of N >= 1 material notifications, each *)
(* arriving before the timer started by the one before it has fired, is    *)
(* answered by exactly one timeout of the timer, which emits               *)
(* materialsUpdated once and comes a full interval after the last          *)
(* notification of the burst.                                              *)
C1_OneTimeoutPerBurst ==
    /\ timeouts + (IF burst > 0 THEN 1 ELSE 0) = bursts
    /\ burst > 0 <=> _update_timer.active

C1_DebounceCoalescing ==
    /\ []C1_OneTimeoutPerBurst
    /\ [][timeouts' # timeouts =>
            /\ timeouts' = timeouts + 1
            /\ burst >= 1
            /\ elapsed = Interval
            /\ last'.emitted = 1
            /\ ~_update_timer'.active]_vars

C1_Witness ==
    /\ last.op = "timeout"
    /\ last.arg = MaxBurst
    /\ timeouts = 1
    /\ bursts = 1

(* C2.  Favorites round-trip: after addFavorite(m) the favorites hold m,   *)
(* after removeFavorite(m) of a present m they do not, and after either    *)
(* the preference is the ";"-join of exactly the ids of the favorites, so  *)
(* that a removed id is none of the joined ids.                            *)
C2_FavoritesRoundTrip ==
    /\ last.op = "addFavorite" =>
          /\ last.arg \in getFavorites
          /\ preferences \in JoinsOf(_favorites)
          /\ last.emitted = 1 /\ last.saved = 1
    /\ (last.op = "removeFavorite" /\ ~last.warned) =>
          /\ last.arg \notin getFavorites
          /\ preferences \in JoinsOf(_favorites)
          /\ \E l \in ListsOf(_favorites) :
                 preferences = Join(l) /\ last.arg \notin Range(l)

C2_Witness ==
    /\ last.op = "removeFavorite"
    /\ ~last.warned
    /\ last.arg = <<"a">>
    /\ _favorites = {<<>>, <<"a", "b">>}
    /\ preferences = <<"a", "b", ";">>

(* C3.  removeFavorite of an id the favorites do not hold logs a warning   *)
(* and changes nothing: the favorites and the preference stay as they      *)
(* were, materialsUpdated is not emitted and saveSettings is not called.   *)
C3_RemoveAbsentIsNoOp ==
    [][(last' # last /\ last'.op = "removeFavorite" /\ last'.arg \notin _favorites) =>
          /\ _favorites' = _favorites
          /\ preferences' = preferences
          /\ last'.emitted = 0
          /\ last'.saved = 0
          /\ last'.warned
          /\ ~last'.raised]_vars

C3_Witness ==
    /\ last.op = "removeFavorite"
    /\ last.warned
    /\ last.arg = <<"a">>
    /\ _favorites = {<<"a", "b">>}

(* C4, as the specification states it.  In the list the call returns, a    *)
(* read-only group comes before every editable group, two editable groups  *)
(* keep the order the GUID map lists them in, and the material's own id    *)
(* never appears.                                                          *)
C4_Ordering ==
    ReturnedFallbackIds =>
        LET l == GroupsOf(last.arg)
            own == getId(last.arg)
        IN \A a, b, c \in 1..Len(l) :
              (/\ l[a].is_read_only /\ ~l[b].is_read_only /\ ~l[c].is_read_only
               /\ b < c
               /\ own \notin {l[a].name, l[b].name, l[c].name})
              => /\ PosOf(last.result, l[a].name) < PosOf(last.result, l[b].name)
                 /\ PosOf(last.result, l[b].name) < PosOf(last.result, l[c].name)

C5_MapsReflectRegistry ==
    /\ DOMAIN _material_group_map = {getId(c) : c \in RegistryMaterials}
    /\ DOMAIN _guid_material_groups_map =
           {getMetaDataEntry(c, "GUID") : c \in RegistryMaterials}
    /\ {getId(c) : c \in RegistryMaterials} \subseteq DOMAIN _diameter_material_map
    /\ DOMAIN _fallback_materials_map \subseteq
           {getMetaDataEntry(c, "material") : c \in RegistryMaterials}

C5_IndexConsistency == last.op = "timeout" => C5_MapsReflectRegistry

(* C6.  getFallBackMaterialIdsByMaterial for a material whose GUID is no   *)
(* key of the GUID map returns a list, empty or holding only the generic   *)
(* fallback id, and does not raise.                                        *)
C6_MissReturnsList ==
    (/\ last.op = "getFallBackMaterialIdsByMaterial"
     /\ getMaterialGroupListByGUID(getMetaDataEntry(last.arg, "GUID")) = None)
    => /\ ~last.raised
       /\ last.result = FallbackOf(last.arg)

C8_RemoveDelegatesToRemoval ==
    last.op = "removeMaterial" =>
        /\ last.delegate # None
        /\ last.delegate[1].method = "removeMaterial"
        /\ last.delegate[1].method # "setMaterialName"
        /\ last.delegate[1].args = last.arg

(* C9.  Diameter filtering: the call returns exactly the entries of        *)
(* getAvailableMaterials(definition id, nozzle name) that have a container *)
(* whose approximate_diameter is numerically the extruder's diameter; the  *)
(* nozzle name is None for the empty variant and the variant's name        *)
(* otherwise.                                                              *)
C9_Number(s) ==
    CASE s = <<"3">> -> 300
      [] s = <<"3", ".", "0">> -> 300
      [] s = <<"2">> -> 200
      [] s = <<"1", ".", "7", "5">> -> 175

C9_DiameterFiltering ==
    last.op = "getAvailableMaterialsForMachineExtruder" =>
        LET machine == last.arg[1]
            extruder_stack == last.arg[2]
            nozzle_name == IF extruder_stack.variant.id = "empty_variant"
                           THEN None
                           ELSE Some(extruder_stack.variant.name)
            available == getAvailableMaterials(machine.definition, nozzle_name)
        IN /\ last.raised <=> available.raised
           /\ ~last.raised =>
                 /\ DOMAIN last.result =
                        {key \in DOMAIN available.result :
                            /\ available.result[key].container # None
                            /\ C9_Number(available.result[key].container[1].approximate_diameter)
                                   = extruder_stack.approximate_diameter}
                 /\ \A key \in DOMAIN last.result :
                        last.result[key] = available.result[key]

C9_Witness ==
    /\ last.op = "getAvailableMaterialsForMachineExtruder"
    /\ ~last.raised
    /\ last.arg[2].variant.id = "empty_variant"
    /\ last.arg[2].approximate_diameter = 300
    /\ DOMAIN container_tree["ultimaker3"][None] = RootMaterialIds
    /\ container_tree["ultimaker3"][None]["generic_abs"].container
           = Some([approximate_diameter |-> <<"1", ".", "7", "5">>])
    /\ DOMAIN last.result = {"generic_pla"}
    /\ last.result["generic_pla"].container
           = Some([approximate_diameter |-> <<"3", ".", "0">>])

(* C10, as the specification states it.  For a type that is no key of the  *)
(* fallback map the call returns None, does not raise and leaves the maps, *)
(* the favorites and the timer as they were; for a type that is a key it   *)
(* returns the id of the fallback material as the diameter map resolves    *)
(* it.                                                                     *)
C10_UnknownType ==
    (/\ last'.op = "getFallbackMaterialIdByMaterialType"
     /\ last'.arg \notin DOMAIN _fallback_materials_map)
    => /\ last'.result = None
       /\ ~last'.raised
       /\ UNCHANGED <<maps, _favorites, _update_timer>>

C11_FavoritesSurviveRestart ==
    [][(/\ last'.op = "__init__"
        /\ last.op \in {"addFavorite", "removeFavorite"}
        /\ preferences \in JoinsOf(_favorites))
       => _favorites' = _favorites]_vars

====
